---------------------------- MODULE Spec2Model ----------------------------
(***************************************************************************)
(* Verification model of the Seahorse Inn telephone agent.                 *)
(*                                                                         *)
(*   Spec      the threaded dialog of main.py (SeahorseAIAgent) together   *)
(*             with the SkyTouch backend of skytouch_automation.py and the *)
(*             /incoming-call webhook that starts the handler thread       *)
(*   SpecChat  ConversationalAI.chat / clear_conversation                  *)
(*   SpecWeb   the Twilio webhooks of main_fix.py                          *)
(*   SpecThreads  the handler threads of main.py running side by side      *)
(*   SpecReplay   Spec with the first session recorded and replayed        *)
(*   SpecExtract  the slot extractors applied to utterances                *)
(*   SpecForm     create_reservation of two calls on the shared page       *)
(*                                                                         *)
(* Text is a sequence of one-character strings, so that lower(), title(),  *)
(* substring tests, re.findall and zfill are computed as Python computes   *)
(* them.  The speech engines are taken by their contract: listen() yields  *)
(* the transcribed utterance ("" when nothing was heard) and synthesize()  *)
(* speaks the text it is given.                                            *)
(***************************************************************************)
EXTENDS Integers, Sequences, FiniteSets, TLC

(***************************************************************************)
(* Python str primitives                                                   *)
(***************************************************************************)
lowers == <<"a","b","c","d","e","f","g","h","i","j","k","l","m",
            "n","o","p","q","r","s","t","u","v","w","x","y","z">>

uppers == <<"A","B","C","D","E","F","G","H","I","J","K","L","M",
            "N","O","P","Q","R","S","T","U","V","W","X","Y","Z">>

digs == <<"0","1","2","3","4","5","6","7","8","9">>

IsUpper(c) == \E i \in 1..26 : uppers[i] = c

IsLower(c) == \E i \in 1..26 : lowers[i] = c

IsAlpha(c) == IsUpper(c) \/ IsLower(c)

IsDigit(c) == \E i \in 1..10 : digs[i] = c

LowerChar(c) == IF IsUpper(c) THEN lowers[CHOOSE i \in 1..26 : uppers[i] = c] ELSE c

UpperChar(c) == IF IsLower(c) THEN uppers[CHOOSE i \in 1..26 : lowers[i] = c] ELSE c

\* str.lower()
Lower(s) == [i \in 1..Len(s) |-> LowerChar(s[i])]

\* str.title(): a cased character is upper-cased after an uncased one (or at
\* the start) and lower-cased after a cased one
Title(s) ==
    [i \in 1..Len(s) |->
        IF i = 1 \/ ~IsAlpha(s[i-1]) THEN UpperChar(s[i]) ELSE LowerChar(s[i])]

\* pat in s
Contains(s, pat) ==
    \E i \in 0..(Len(s) - Len(pat)) :
        \A j \in 1..Len(pat) : s[i + j] = pat[j]

\* str.strip() (blanks only)
RECURSIVE Strip(_)
Strip(s) ==
    IF s = <<>> THEN s
    ELSE IF Head(s) = " " THEN Strip(Tail(s))
    ELSE IF s[Len(s)] = " " THEN Strip(SubSeq(s, 1, Len(s) - 1))
    ELSE s

\* re.findall(r'\d', s)
FindDigits(s) == SelectSeq(s, IsDigit)

\* re.findall(r'\d+', s): the maximal runs of digits, left to right
RECURSIVE FindNumbers(_)
FindNumbers(s) ==
    IF s = <<>> THEN <<>>
    ELSE IF ~IsDigit(Head(s)) THEN FindNumbers(Tail(s))
    ELSE LET n == CHOOSE k \in 1..Len(s) :
                      /\ \A j \in 1..k : IsDigit(s[j])
                      /\ (k = Len(s) \/ ~IsDigit(s[k + 1]))
         IN  <<SubSeq(s, 1, n)>> \o FindNumbers(SubSeq(s, n + 1, Len(s)))

\* str.zfill(w) of a digit string
RECURSIVE ZFill(_, _)
ZFill(s, w) == IF Len(s) >= w THEN s ELSE ZFill(<<"0">> \o s, w)

DigitVal(c) == (CHOOSE i \in 1..10 : digs[i] = c) - 1

\* int(s) of a digit string
RECURSIVE ToInt(_)
ToInt(s) ==
    IF s = <<>> THEN 0
    ELSE 10 * ToInt(SubSeq(s, 1, Len(s) - 1)) + DigitVal(s[Len(s)])

\* str(n) of a natural number
RECURSIVE ToStr(_)
ToStr(n) == IF n < 10 THEN <<digs[n + 1]>> ELSE ToStr(n \div 10) \o <<digs[(n % 10) + 1]>>


(***************************************************************************)
(* datetime.date: [y, m, d]                                                *)
(***************************************************************************)
IsLeap(y) == (y % 4 = 0 /\ y % 100 # 0) \/ y % 400 = 0

DaysIn(y, m) ==
    IF m = 2 THEN (IF IsLeap(y) THEN 29 ELSE 28)
    ELSE IF m \in {4, 6, 9, 11} THEN 30 ELSE 31

NextDay(dt) ==
    IF dt.d < DaysIn(dt.y, dt.m) THEN [dt EXCEPT !.d = dt.d + 1]
    ELSE IF dt.m < 12 THEN [y |-> dt.y, m |-> dt.m + 1, d |-> 1]
    ELSE [y |-> dt.y + 1, m |-> 1, d |-> 1]

\* date + timedelta(days=n)
RECURSIVE AddDays(_, _)
AddDays(dt, n) == IF n = 0 THEN dt ELSE AddDays(NextDay(dt), n - 1)

\* date.strftime("%m/%d/%Y")
Strftime(dt) ==
    ZFill(ToStr(dt.m), 2) \o <<"/">> \o ZFill(ToStr(dt.d), 2) \o <<"/">> \o ZFill(ToStr(dt.y), 4)

(***************************************************************************)
(* Slot extractors of main.py                                              *)
(***************************************************************************)
\* SeahorseAIAgent.parse_date (main.py); now is the clock date
parse_date(date_str, now) ==
    LET ds == Lower(date_str)
        numbers == FindNumbers(ds)
    IN  IF Contains(ds, <<"t","o","d","a","y">>) THEN Strftime(now)
        ELSE IF Contains(ds, <<"t","o","m","o","r","r","o","w">>) THEN Strftime(AddDays(now, 1))
        ELSE IF Contains(ds, <<"n","e","x","t">>) THEN Strftime(AddDays(now, 7))
        ELSE IF Len(numbers) >= 2
             THEN ZFill(numbers[1], 2) \o <<"/">> \o ZFill(numbers[2], 2)
                      \o <<"/">> \o ToStr(now.y)
             ELSE Strftime(now)

\* SeahorseAIAgent.extract_number
extract_number(text) ==
    LET numbers == FindNumbers(text)
    IN  IF numbers # <<>> THEN ToInt(numbers[1]) ELSE 1

INVALID == <<"I","n","v","a","l","i","d">>

\* (mutant) the first ten digits are taken
extract_phone_first_ten(text) ==
    LET digits == FindDigits(text)
    IN  IF Len(digits) >= 10
        THEN LET phone == SubSeq(digits, 1, 10)
             IN  <<"(">> \o SubSeq(phone, 1, 3) \o <<")", " ">> \o SubSeq(phone, 4, 6)
                     \o <<"-">> \o SubSeq(phone, 7, 10)
        ELSE INVALID

\* SeahorseAIAgent.extract_phone
extract_phone(text) ==
    LET digits == FindDigits(text)
    IN  IF Len(digits) >= 10
        THEN LET phone == SubSeq(digits, Len(digits) - 9, Len(digits))
             IN  <<"(">> \o SubSeq(phone, 1, 3) \o <<")", " ">> \o SubSeq(phone, 4, 6)
                     \o <<"-">> \o SubSeq(phone, 7, 10)
        ELSE INVALID

(***************************************************************************)
(* Utterances returned by stt.listen() and texts returned by the AI        *)
(***************************************************************************)
U_EMPTY == <<>>

U_YES == <<"Y","e","s">>

U_NO == <<"n","o">>

U_CORRECT == <<"c","o","r","r","e","c","t">>

U_NOT_CORRECT == <<"n","o","t"," ","c","o","r","r","e","c","t">>

U_TODAY == <<"t","o","d","a","y">>

U_TOMORROW == <<"T","o","m","o","r","r","o","w">>

U_NEXT == <<"n","e","x","t"," ","w","e","e","k">>

U_DEC25 == <<"1","2"," ","2","5">>

U_JAN5 == <<"o","n"," ","1"," ","5">>

U_BYE == <<"t","h","a","n","k","s"," ","b","y","e">>

U_JANE == <<"j","a","n","e"," ","d","o","e">>

U_PHONE == <<"2","5","2"," ","4","4","1"," ","5","2","4","2">>

U_SHORT == <<"5","5","5">>

U_MAIL == <<"J","a","n","e","@","X",".","c","o","m">>

U_TWO == <<"2"," ","g","u","e","s","t","s">>

U_BOOK == <<"b","o","o","k"," ","a"," ","r","o","o","m">>

YES == <<"y","e","s">>

CORRECT == <<"c","o","r","r","e","c","t">>

I_NEW_BOOKING == <<"N","E","W","_","B","O","O","K","I","N","G">>

I_EXTEND_STAY == <<"E","X","T","E","N","D","_","S","T","A","Y">>

I_CANCEL == <<"C","A","N","C","E","L">>

I_FAQ == <<"F","A","Q">>

I_OTHER == <<"O","T","H","E","R">>

\* what the intent model may answer: a category, a padded category, free text
A_PADDED == <<" ","F","A","Q"," ">>

A_FREE == <<"B","o","o","k","i","n","g">>

(***************************************************************************)
(* Bounds of the model                                                     *)
(***************************************************************************)
\* frames a handler thread may nest before Python raises RecursionError
RecursionLimit == 4

\* calls the /incoming-call webhook receives, one after the other
MaxCalls == 2

(***************************************************************************)
(* Input domains                                                           *)
(***************************************************************************)
Dates == { [y |-> 2026, m |-> 12, d |-> 31], [y |-> 2024, m |-> 2, d |-> 28] }

Bodies == {"json", "missing", "malformed"}

GreetInputs == {U_EMPTY, U_BOOK, U_BYE}

CheckInInputs == {U_EMPTY, U_TOMORROW, U_DEC25, U_BYE}

CheckOutInputs == {U_EMPTY, U_NEXT, U_JAN5}

GuestsInputs == {U_EMPTY, U_TWO}

NameInputs == {U_EMPTY, U_JANE, U_BYE}

PhoneInputs == {U_EMPTY, U_PHONE, U_SHORT}

EmailInputs == {U_EMPTY, U_MAIL}

ConfirmInputs == {U_EMPTY, U_YES, U_CORRECT, U_NO, U_NOT_CORRECT, U_BYE}

ReasonInputs == {U_EMPTY, U_BYE}

FaqInputs == {U_EMPTY, U_YES, U_NO, U_BYE, U_BOOK}

LookupInputs == {U_EMPTY, U_JANE}

AIReplies ==
    { [ok |-> TRUE, text |-> t] :
          t \in {I_NEW_BOOKING, I_EXTEND_STAY, I_CANCEL, I_FAQ, I_OTHER, A_PADDED, A_FREE} }
    \cup { [ok |-> FALSE, text |-> <<>>] }

BookingSlots == {"check_in", "check_out", "guests", "name", "phone", "email"}

(***************************************************************************)
(* State                                                                   *)
(***************************************************************************)
VARIABLES
    today,        \* datetime.now().date()
    browser,      \* SkyTouchAgent.browser: "None" or "set"
    page,         \* SkyTouchAgent.page: "None" or "set"
    calls,        \* number of /incoming-call requests that started a thread
    response,     \* what the last webhook returned
    pc,           \* where the handler thread of the current call stands
    stack,        \* its nested handler invocations, outermost first
    guest_info,   \* dict of the running handle_new_booking
    cancel_info,  \* dict of the running handle_cancellation
    reservation,  \* result of search_reservation in handle_extend_stay
    heard,        \* what listen() returned for each slot of the running pass
    last_input,   \* <<what the latest listen() of the call returned>>, <<>> before it
    said,         \* the texts synthesized during the call
    endCalls,     \* call_manager.end_call invocations of the call
    transfers,    \* call_manager.transfer_to_agent invocations of the call
    smsSent,      \* notifications.send_sms invocations of the call
    emailsSent,   \* notifications.send_email invocations of the call
    backend,      \* the SkyTouch invocations of the call: operation, arguments, result
    exc,          \* exception that ended the handler thread, "none" otherwise
    undelivered,  \* notifications of the call the provider did not deliver
    conversations, \* ConversationalAI.conversations: call_id -> list of messages
    chat_args,    \* the arguments of the latest ConversationalAI.chat
    chat_result,  \* what the latest ConversationalAI.chat returned
    web_at,       \* main_fix.py: the callback the telephony provider was told to call
    request,      \* main_fix.py: the form of the latest callback
    intent,       \* <<what detect_intent returned to handle_incoming_call>>, <<>> before it
    ai_reply,     \* <<what the chat completion of that detect_intent did>>, <<>> before it
    threads,      \* the handler threads /incoming-call started: call_id and position
    active_calls, \* CallManager.active_calls (its keys)
    extraction,   \* the latest utterance given to the slot extractors and their results
    recording,    \* whether the sessions of the process are recorded and replayed
    tape,         \* the inputs the first session consumed, turn by turn, not yet replayed
    trace,        \* what the first session did, turn by turn
    replayed,     \* what the second session did, turn by turn
    page_form,    \* the reservation form on SkyTouchAgent.page, field by field
    filling,      \* call_id -> where its thread stands inside create_reservation
    submitted     \* the forms the backend got, each with the call that clicked

vars == <<today, browser, page, calls, response, pc, stack, guest_info, cancel_info,
          reservation, heard, last_input, said, endCalls, transfers, smsSent,
          emailsSent, backend, exc, undelivered, conversations, chat_args, chat_result, web_at,
          request, intent, ai_reply, threads, active_calls, extraction, recording,
          tape, trace, replayed, page_form, filling, submitted>>

\* the state of the handler thread of main.py and of its collaborators
callVars == <<today, browser, page, calls, pc, stack, guest_info, cancel_info,
              reservation, heard, last_input, said, endCalls, transfers, smsSent,
              emailsSent, backend, exc, undelivered, intent, ai_reply>>

chatVars == <<conversations, chat_args, chat_result>>

webVars == <<web_at, request>>

threadVars == <<threads, active_calls>>

intentVars == <<intent, ai_reply>>

extractVars == <<extraction>>

replayVars == <<recording, tape, trace, replayed>>

formVars == <<page_form, filling, submitted>>

\* the fields create_reservation fills
FormFields == {"name", "phone", "email", "check_in", "check_out", "guests"}

\* a field nothing was typed into
Blank == <<>>

BlankForm == [field \in FormFields |-> Blank]

\* the local reservation of handle_extend_stay before search_reservation
\* has returned one
NoReservation == [id |-> "None"]

NoResponse == [status |-> 0, says |-> 0, gather |-> "none", dial |-> FALSE]

\* the state of the process after "agent = SeahorseAIAgent()"
InitProgram ==
    /\ today \in Dates
    /\ browser = "None"
    /\ page = "None"
    /\ calls = 0
    /\ response = NoResponse
    /\ pc = "idle"
    /\ stack = <<>>
    /\ guest_info = <<>>
    /\ cancel_info = <<>>
    /\ reservation = NoReservation
    /\ heard = <<>>
    /\ last_input = <<>>
    /\ said = {}
    /\ endCalls = 0
    /\ transfers = 0
    /\ smsSent = 0
    /\ emailsSent = 0
    /\ backend = <<>>
    /\ exc = "none"
    /\ undelivered = 0
    /\ conversations = <<>>
    /\ chat_args = [call_id |-> "none", user_message |-> <<>>]
    /\ chat_result = [response |-> <<>>, should_end_call |-> FALSE, intent |-> "none"]
    /\ web_at = "none"
    /\ request = <<>>
    /\ intent = <<>>
    /\ ai_reply = <<>>
    /\ threads = <<>>
    /\ active_calls = {}
    /\ extraction = <<>>
    /\ tape = <<>>
    /\ trace = <<>>
    /\ replayed = <<>>
    /\ page_form = BlankForm
    /\ filling = <<>>
    /\ submitted = <<>>

Init == InitProgram /\ recording = FALSE

\* (mutant) the assignment replaces the dict by one holding the new key only
DictSetOnly(d, k, v) == [x \in {k} |-> v]

\* d[k] = v on a Python dict
DictSet(d, k, v) == [x \in (DOMAIN d) \cup {k} |-> IF x = k THEN v ELSE d[x]]

(***************************************************************************)
(* skytouch_automation.py                                                  *)
(***************************************************************************)
\* SkyTouchAgent.login: the playwright start, the launch and the new
\* context/page stand before the try; the form and the wait for the
\* dashboard stand inside it (its True/False is ignored by the callers)
login ==
    { [browser |-> "None", page |-> "None", raised |-> TRUE],
      [browser |-> "set",  page |-> "None", raised |-> TRUE],
      [browser |-> "set",  page |-> "set",  raised |-> FALSE] }

\* "if not self.browser: self.login()" followed by the try block of page
\* operations: a page operation on page None, a missing element and a
\* timeout are all caught by "except Exception"
PageOperation(b, p) ==
    LET entered == IF b = "None" THEN login
                   ELSE {[browser |-> b, page |-> p, raised |-> FALSE]}
    IN  UNION { IF l.raised
                THEN {[browser |-> l.browser, page |-> l.page, result |-> "raise"]}
                ELSE IF l.page = "None"
                THEN {[browser |-> l.browser, page |-> l.page, result |-> "fail"]}
                ELSE {[browser |-> l.browser, page |-> l.page, result |-> r] :
                          r \in {"ok", "fail"}}
              : l \in entered }

\* result "ok" is {"success": True, "confirmation_id": ...}, "fail" is
\* {"success": False, ...}
create_reservation(b, p) == PageOperation(b, p)

\* result "ok" is the reservation dict, "fail" is None
search_reservation(b, p) == PageOperation(b, p)

\* result "ok" is {"success": True}, "fail" is {"success": False}
update_checkout(b, p) == PageOperation(b, p)

ReservationIds == {"R1", "R2"}

(***************************************************************************)
(* sms_email.py                                                            *)
(***************************************************************************)
\* (mutant) no except clause: a failed delivery raises out of send_sms
send_sms_unguarded(delivered) == IF delivered THEN "none" ELSE "NotificationError"

\* NotificationService.send_sms: the exception that leaves it, given whether
\* the provider delivered; "except Exception" logs the failure and returns
send_sms(delivered) == "none"

\* NotificationService.send_email, likewise
send_email(delivered) == "none"

(***************************************************************************)
(* ai_brain.py                                                             *)
(***************************************************************************)
\* (mutant) no except clause: the failed completion is not turned into OTHER
detect_intent_unguarded(reply) == Strip(reply.text)

\* AIBrain.detect_intent: the stripped text of the model, OTHER on exception
detect_intent(reply) == IF reply.ok THEN Strip(reply.text) ELSE I_OTHER

(***************************************************************************)
(* main.py: the handler thread, one step per listen()                      *)
(***************************************************************************)
\* the handler returns to the thread's target and the thread ends
Return == pc' = "returned" /\ stack' = <<>> /\ exc' = exc

\* an exception no handler catches ends the thread
Raise(e) == pc' = "crashed" /\ stack' = <<>> /\ exc' = e

\* entry of handle_incoming_call up to its listen()
handle_incoming_call(spoken) ==
    IF Len(stack) >= RecursionLimit
    THEN Raise("RecursionError") /\ said' = spoken
    ELSE /\ stack' = Append(stack, "handle_incoming_call")
         /\ said' = spoken \cup {"greeting"}
         /\ pc' = "LISTENING"
         /\ exc' = exc

\* entry of handle_new_booking up to its first listen()
handle_new_booking(spoken) ==
    IF Len(stack) >= RecursionLimit
    THEN Raise("RecursionError") /\ said' = spoken /\ UNCHANGED <<guest_info, heard>>
    ELSE /\ stack' = Append(stack, "handle_new_booking")
         /\ guest_info' = <<>>
         /\ heard' = <<>>
         /\ said' = spoken \cup {"ask_check_in"}
         /\ pc' = "BOOKING_CHECKIN"
         /\ exc' = exc

\* entry of handle_extend_stay up to its first listen()
handle_extend_stay(spoken) ==
    IF Len(stack) >= RecursionLimit
    THEN Raise("RecursionError") /\ said' = spoken
    ELSE /\ stack' = Append(stack, "handle_extend_stay")
         /\ said' = spoken \cup {"ask_guest_id"}
         /\ pc' = "EXTEND_LOOKUP"
         /\ exc' = exc

\* entry of handle_cancellation up to its first listen()
handle_cancellation(spoken) ==
    IF Len(stack) >= RecursionLimit
    THEN Raise("RecursionError") /\ said' = spoken /\ UNCHANGED <<cancel_info, heard>>
    ELSE /\ stack' = Append(stack, "handle_cancellation")
         /\ cancel_info' = <<>>
         /\ heard' = <<>>
         /\ said' = spoken \cup {"ask_cancel_name"}
         /\ pc' = "CANCEL_NAME"
         /\ exc' = exc

\* entry of handle_faq up to its listen(): answer_faq returns the answer of
\* the model, or its fallback sentence when the model raised
handle_faq(spoken) ==
    IF Len(stack) >= RecursionLimit
    THEN Raise("RecursionError") /\ said' = spoken
    ELSE /\ stack' = Append(stack, "handle_faq")
         /\ \E answered \in BOOLEAN :
                said' = spoken \cup {IF answered THEN "faq_answer" ELSE "faq_fallback",
                                     "anything_else"}
         /\ pc' = "FAQ_ANSWER"
         /\ exc' = exc

\* turns of a session that are recorded
MaxTurns == 9

\* what a session takes from outside: the utterance heard, what the AI
\* backend did (intent detection, FAQ answer) and what the SkyTouch
\* operations returned
Inputs ==
    [utterance   |-> last_input,
     ai          |-> ai_reply,
     faq         |-> said \cap {"faq_answer", "faq_fallback"},
     outcomes    |-> [i \in DOMAIN backend |-> backend[i].result],
     reservation |-> reservation,
     undelivered |-> undelivered]

\* what a session does: its position, its nested handlers, the prompts
\* spoken, the SkyTouch invocations, the slots held, the notifications and
\* the terminal actions
Observed ==
    [pc |-> pc, stack |-> stack, said |-> said,
     invocations |-> [i \in DOMAIN backend |-> [op |-> backend[i].op, args |-> backend[i].args]],
     guest_info |-> guest_info, cancel_info |-> cancel_info, heard |-> heard,
     intent |-> intent, endCalls |-> endCalls, transfers |-> transfers,
     smsSent |-> smsSent, emailsSent |-> emailsSent, exc |-> exc]

\* bookkeeping of a turn: when sessions are recorded, the turns of the first
\* session of the process are written down, and the second session is given
\* the same inputs in the same order (same clock date, same process); a
\* request that starts no session is no turn
Taped ==
    IF ~recording \/ (pc \in {"idle", "returned", "crashed"} /\ calls' = calls)
    THEN UNCHANGED replayVars
    ELSE IF calls' = 1
    THEN /\ Len(tape) < MaxTurns
         /\ tape' = Append(tape, Inputs')
         /\ trace' = Append(trace, Observed')
         /\ UNCHANGED <<recording, replayed>>
    ELSE /\ tape # <<>>
         /\ Inputs' = Head(tape)
         /\ tape' = Tail(tape)
         /\ replayed' = Append(replayed, Observed')
         /\ UNCHANGED <<recording, trace>>

\* /incoming-call of main.py: request.json on a body that is no JSON raises
\* (400, 415) or yields None, on which data.get raises (500); otherwise the
\* handler thread is started and a JSON status is returned
IncomingCall ==
    /\ pc \in {"idle", "returned", "crashed"}
    /\ calls < MaxCalls
    /\ \E body \in Bodies :
        IF body = "json"
        THEN /\ response' = [status |-> 200, says |-> 0, gather |-> "none", dial |-> FALSE]
             /\ calls' = calls + 1
             /\ stack' = <<"handle_incoming_call">>
             /\ said' = {"greeting"}
             /\ pc' = "LISTENING"
             /\ exc' = "none"
             /\ guest_info' = <<>>
             /\ cancel_info' = <<>>
             /\ reservation' = NoReservation
             /\ heard' = <<>>
             /\ last_input' = <<>>
             /\ endCalls' = 0
             /\ transfers' = 0
             /\ smsSent' = 0
             /\ emailsSent' = 0
             /\ backend' = <<>>
             /\ undelivered' = 0
             /\ intent' = <<>>
             /\ ai_reply' = <<>>
             /\ UNCHANGED <<today, browser, page>>
        ELSE /\ \E st \in (IF body = "malformed" THEN {400} ELSE {415, 500}) :
                    response' = [status |-> st, says |-> 0, gather |-> "none", dial |-> FALSE]
             /\ UNCHANGED <<today, browser, page, calls, pc, stack, guest_info,
                            cancel_info, reservation, heard, last_input, said, endCalls,
                            transfers, smsSent, emailsSent, backend, exc, undelivered,
                            intentVars>>
    /\ UNCHANGED <<chatVars, webVars, threadVars, extractVars, formVars>>
    /\ Taped

\* handle_incoming_call from its listen() on
HandleIncomingCall ==
    /\ pc = "LISTENING"
    /\ \E user_input \in GreetInputs :
        /\ last_input' = <<user_input>>
        /\ IF user_input = <<>>
           THEN /\ said' = said \cup {"sorry_transfer"}
                /\ transfers' = transfers + 1
                /\ Return
                /\ UNCHANGED <<guest_info, cancel_info, reservation, heard, intentVars>>
           ELSE \E reply \in AIReplies :
                LET detected == detect_intent(reply)
                IN  /\ intent' = <<detected>>
                    /\ ai_reply' = <<reply>>
                    /\ IF detected = I_NEW_BOOKING
                       THEN /\ handle_new_booking(said)
                            /\ UNCHANGED <<cancel_info, reservation, transfers>>
                       ELSE IF detected = I_EXTEND_STAY
                       THEN /\ handle_extend_stay(said)
                            /\ UNCHANGED <<guest_info, cancel_info, reservation, heard, transfers>>
                       ELSE IF detected = I_CANCEL
                       THEN /\ handle_cancellation(said)
                            /\ UNCHANGED <<guest_info, reservation, transfers>>
                       ELSE IF detected = I_FAQ
                       THEN /\ handle_faq(said)
                            /\ UNCHANGED <<guest_info, cancel_info, reservation, heard, transfers>>
                       ELSE /\ transfers' = transfers + 1
                            /\ said' = said
                            /\ Return
                            /\ UNCHANGED <<guest_info, cancel_info, reservation, heard>>
    /\ UNCHANGED <<today, browser, page, calls, response, endCalls, smsSent,
                   emailsSent, backend, undelivered>>
    /\ UNCHANGED <<chatVars, webVars, threadVars, extractVars, formVars>>
    /\ Taped

(***************************************************************************)
(* handle_new_booking                                                      *)
(***************************************************************************)
\* check_in = listen(); guest_info['check_in'] = parse_date(check_in)
BookingCheckIn ==
    /\ pc = "BOOKING_CHECKIN"
    /\ \E text \in CheckInInputs :
        /\ guest_info' = DictSet(guest_info, "check_in", parse_date(text, today))
        /\ heard' = DictSet(heard, "check_in", text)
        /\ last_input' = <<text>>
    /\ said' = said \cup {"ask_check_out"}
    /\ pc' = "BOOKING_CHECKOUT"
    /\ UNCHANGED <<today, browser, page, calls, response, stack, cancel_info, reservation,
                   endCalls, transfers, smsSent, emailsSent, backend, exc>>
    /\ UNCHANGED <<chatVars, webVars, threadVars, intentVars, extractVars, formVars, undelivered>>
    /\ Taped

\* (mutant) the number of guests is not asked for
BookingCheckOutSkipsGuests ==
    /\ pc = "BOOKING_CHECKOUT"
    /\ \E text \in CheckOutInputs :
        /\ guest_info' = DictSet(guest_info, "check_out", parse_date(text, today))
        /\ heard' = DictSet(heard, "check_out", text)
        /\ last_input' = <<text>>
    /\ said' = said \cup {"ask_name"}
    /\ pc' = "BOOKING_NAME"
    /\ UNCHANGED <<today, browser, page, calls, response, stack, cancel_info, reservation,
                   endCalls, transfers, smsSent, emailsSent, backend, exc>>
    /\ UNCHANGED <<chatVars, webVars, threadVars, intentVars, extractVars, formVars, undelivered>>
    /\ Taped

\* check_out = listen(); guest_info['check_out'] = parse_date(check_out)
BookingCheckOut ==
    /\ pc = "BOOKING_CHECKOUT"
    /\ \E text \in CheckOutInputs :
        /\ guest_info' = DictSet(guest_info, "check_out", parse_date(text, today))
        /\ heard' = DictSet(heard, "check_out", text)
        /\ last_input' = <<text>>
    /\ said' = said \cup {"ask_guests"}
    /\ pc' = "BOOKING_GUESTS"
    /\ UNCHANGED <<today, browser, page, calls, response, stack, cancel_info, reservation,
                   endCalls, transfers, smsSent, emailsSent, backend, exc>>
    /\ UNCHANGED <<chatVars, webVars, threadVars, intentVars, extractVars, formVars, undelivered>>
    /\ Taped

\* num_guests = listen(); guest_info['guests'] = extract_number(num_guests)
BookingGuests ==
    /\ pc = "BOOKING_GUESTS"
    /\ \E text \in GuestsInputs :
        /\ guest_info' = DictSet(guest_info, "guests", extract_number(text))
        /\ heard' = DictSet(heard, "guests", text)
        /\ last_input' = <<text>>
    /\ said' = said \cup {"ask_name"}
    /\ pc' = "BOOKING_NAME"
    /\ UNCHANGED <<today, browser, page, calls, response, stack, cancel_info, reservation,
                   endCalls, transfers, smsSent, emailsSent, backend, exc>>
    /\ UNCHANGED <<chatVars, webVars, threadVars, intentVars, extractVars, formVars, undelivered>>
    /\ Taped

\* name = listen(); guest_info['name'] = name.title()
BookingName ==
    /\ pc = "BOOKING_NAME"
    /\ \E text \in NameInputs :
        /\ guest_info' = DictSet(guest_info, "name", Title(text))
        /\ heard' = DictSet(heard, "name", text)
        /\ last_input' = <<text>>
    /\ said' = said \cup {"ask_phone"}
    /\ pc' = "BOOKING_PHONE"
    /\ UNCHANGED <<today, browser, page, calls, response, stack, cancel_info, reservation,
                   endCalls, transfers, smsSent, emailsSent, backend, exc>>
    /\ UNCHANGED <<chatVars, webVars, threadVars, intentVars, extractVars, formVars, undelivered>>
    /\ Taped

\* phone = listen(); guest_info['phone'] = extract_phone(phone)
BookingPhone ==
    /\ pc = "BOOKING_PHONE"
    /\ \E text \in PhoneInputs :
        /\ guest_info' = DictSet(guest_info, "phone", extract_phone(text))
        /\ heard' = DictSet(heard, "phone", text)
        /\ last_input' = <<text>>
    /\ said' = said \cup {"ask_email"}
    /\ pc' = "BOOKING_EMAIL"
    /\ UNCHANGED <<today, browser, page, calls, response, stack, cancel_info, reservation,
                   endCalls, transfers, smsSent, emailsSent, backend, exc>>
    /\ UNCHANGED <<chatVars, webVars, threadVars, intentVars, extractVars, formVars, undelivered>>
    /\ Taped

\* email = listen(); guest_info['email'] = email.lower(); the details are read back
BookingEmail ==
    /\ pc = "BOOKING_EMAIL"
    /\ \E text \in EmailInputs :
        /\ guest_info' = DictSet(guest_info, "email", Lower(text))
        /\ heard' = DictSet(heard, "email", text)
        /\ last_input' = <<text>>
    /\ said' = said \cup {"read_back_booking"}
    /\ pc' = "BOOKING_CONFIRM"
    /\ UNCHANGED <<today, browser, page, calls, response, stack, cancel_info, reservation,
                   endCalls, transfers, smsSent, emailsSent, backend, exc>>
    /\ UNCHANGED <<chatVars, webVars, threadVars, intentVars, extractVars, formVars, undelivered>>
    /\ Taped

\* (mutant) check_in and check_out are passed in each other's place
CreateArgsSwapped(info) ==
    [name |-> info["name"], phone |-> info["phone"], email |-> info["email"],
     check_in |-> info["check_out"], check_out |-> info["check_in"],
     num_guests |-> info["guests"]]

\* the keyword arguments of skytouch.create_reservation
CreateArgs(info) ==
    [name |-> info["name"], phone |-> info["phone"], email |-> info["email"],
     check_in |-> info["check_in"], check_out |-> info["check_out"],
     num_guests |-> info["guests"]]

\* (mutant) the result is taken for a success without looking at it
SuccessAlways(result) == TRUE

\* result['success'] of the dict a SkyTouch operation returned
Success(result) == result = "ok"

\* (mutant) the owner is notified of the first booking of the process only
BookingSucceededNotifyingOnce ==
    /\ said' = said \cup {"booking_confirmed"}
    /\ smsSent' = IF calls = 1 THEN smsSent + 1 ELSE smsSent
    /\ emailsSent' = IF calls = 1 THEN emailsSent + 1 ELSE emailsSent
    /\ endCalls' = endCalls + 1
    /\ Return
    /\ UNCHANGED <<transfers, guest_info, heard, undelivered>>

\* the branch "if booking_result['success']": the confirmation is spoken, the
\* owner is notified by SMS and e-mail, the call is ended
BookingSucceeded ==
    \E sms_ok, email_ok \in BOOLEAN :
        LET sms_exc == send_sms(sms_ok)
            email_exc == IF sms_exc = "none" THEN send_email(email_ok) ELSE "none"
        IN  /\ said' = said \cup {"booking_confirmed"}
            /\ smsSent' = smsSent + 1
            /\ emailsSent' = IF sms_exc = "none" THEN emailsSent + 1 ELSE emailsSent
            /\ undelivered' = undelivered + (IF sms_ok THEN 0 ELSE 1)
                                   + (IF sms_exc = "none" /\ ~email_ok THEN 1 ELSE 0)
            /\ IF sms_exc # "none" THEN Raise(sms_exc) /\ UNCHANGED endCalls
               ELSE IF email_exc # "none" THEN Raise(email_exc) /\ UNCHANGED endCalls
               ELSE endCalls' = endCalls + 1 /\ Return
            /\ UNCHANGED <<transfers, guest_info, heard>>

\* (mutant) the failure branch empties guest_info before the transfer
BookingFailedClears ==
    /\ said' = said \cup {"booking_trouble"}
    /\ transfers' = transfers + 1
    /\ guest_info' = <<>>
    /\ Return
    /\ UNCHANGED <<smsSent, emailsSent, endCalls, heard, undelivered>>

\* its else branch: the apology is spoken and the call is transferred
BookingFailed ==
    /\ said' = said \cup {"booking_trouble"}
    /\ transfers' = transfers + 1
    /\ Return
    /\ UNCHANGED <<smsSent, emailsSent, endCalls, guest_info, heard, undelivered>>

\* confirm = listen(); "yes"/"correct" books through SkyTouch, anything else
\* calls handle_new_booking again
BookingConfirm ==
    /\ pc = "BOOKING_CONFIRM"
    /\ \E confirm \in ConfirmInputs :
        /\ last_input' = <<confirm>>
        /\ IF Contains(Lower(confirm), YES) \/ Contains(Lower(confirm), CORRECT)
           THEN \E booking_result \in create_reservation(browser, page) :
                /\ browser' = booking_result.browser
                /\ page' = booking_result.page
                /\ backend' = Append(backend, [op |-> "create_reservation",
                                                args |-> CreateArgs(guest_info),
                                                result |-> booking_result.result])
                /\ IF booking_result.result = "raise"
                   THEN /\ Raise("BackendError")
                        /\ UNCHANGED <<said, smsSent, emailsSent, endCalls, transfers,
                                       guest_info, heard, undelivered>>
                   ELSE IF Success(booking_result.result)
                   THEN BookingSucceeded
                   ELSE BookingFailed
           ELSE /\ handle_new_booking(said \cup {"try_again"})
                /\ UNCHANGED <<browser, page, backend, smsSent, emailsSent, endCalls,
                               transfers, undelivered>>
    /\ UNCHANGED <<today, calls, response, cancel_info, reservation>>
    /\ UNCHANGED <<chatVars, webVars, threadVars, intentVars, extractVars, formVars>>
    /\ Taped

(***************************************************************************)
(* handle_extend_stay                                                      *)
(***************************************************************************)
\* (mutant) the flow goes on to the new date when the search found nothing
ExtendLookupWithoutReservation ==
    /\ pc = "EXTEND_LOOKUP"
    /\ \E guest_id \in LookupInputs :
       \E found \in search_reservation(browser, page) :
        /\ last_input' = <<guest_id>>
        /\ browser' = found.browser
        /\ page' = found.page
        /\ backend' = Append(backend, [op |-> "search_reservation",
                                        args |-> guest_id,
                                        result |-> found.result])
        /\ IF found.result = "raise"
           THEN /\ Raise("BackendError")
                /\ UNCHANGED <<said, reservation, transfers>>
           ELSE IF found.result = "fail"
           THEN /\ said' = said \cup {"ask_new_checkout"}
                /\ pc' = "EXTEND_NEW_DATE"
                /\ UNCHANGED <<stack, exc, transfers, reservation>>
           ELSE /\ \E id \in ReservationIds : reservation' = [id |-> id]
                /\ said' = said \cup {"ask_new_checkout"}
                /\ pc' = "EXTEND_NEW_DATE"
                /\ UNCHANGED <<stack, exc, transfers>>
    /\ UNCHANGED <<today, calls, response, guest_info, cancel_info, heard, endCalls,
                   smsSent, emailsSent>>
    /\ UNCHANGED <<chatVars, webVars, threadVars, intentVars, extractVars, formVars, undelivered>>
    /\ Taped

\* guest_id = listen(); reservation = search_reservation(guest_id)
ExtendLookup ==
    /\ pc = "EXTEND_LOOKUP"
    /\ \E guest_id \in LookupInputs :
       \E found \in search_reservation(browser, page) :
        /\ last_input' = <<guest_id>>
        /\ browser' = found.browser
        /\ page' = found.page
        /\ backend' = Append(backend, [op |-> "search_reservation",
                                        args |-> guest_id,
                                        result |-> found.result])
        /\ IF found.result = "raise"
           THEN /\ Raise("BackendError")
                /\ UNCHANGED <<said, reservation, transfers>>
           ELSE IF found.result = "fail"
           THEN /\ said' = said \cup {"not_found"}
                /\ transfers' = transfers + 1
                /\ Return
                /\ UNCHANGED reservation
           ELSE /\ \E id \in ReservationIds : reservation' = [id |-> id]
                /\ said' = said \cup {"ask_new_checkout"}
                /\ pc' = "EXTEND_NEW_DATE"
                /\ UNCHANGED <<stack, exc, transfers>>
    /\ UNCHANGED <<today, calls, response, guest_info, cancel_info, heard, endCalls,
                   smsSent, emailsSent>>
    /\ UNCHANGED <<chatVars, webVars, threadVars, intentVars, extractVars, formVars, undelivered>>
    /\ Taped

\* new_checkout = listen(); update_checkout(reservation['id'], parse_date(new_checkout))
ExtendNewDate ==
    /\ pc = "EXTEND_NEW_DATE"
    /\ \E new_checkout \in CheckOutInputs :
       \E update_result \in update_checkout(browser, page) :
        /\ last_input' = <<new_checkout>>
        /\ browser' = update_result.browser
        /\ page' = update_result.page
        /\ backend' = Append(backend, [op |-> "update_checkout",
                                        args |-> [reservation_id |-> reservation.id,
                                                  new_checkout |-> parse_date(new_checkout, today)],
                                        result |-> update_result.result])
        /\ IF update_result.result = "raise"
           THEN /\ Raise("BackendError")
                /\ UNCHANGED <<said, smsSent, endCalls, transfers, undelivered>>
           ELSE IF Success(update_result.result)
           THEN \E sms_ok \in BOOLEAN :
                /\ said' = said \cup {"extension_confirmed"}
                /\ smsSent' = smsSent + 1
                /\ undelivered' = undelivered + (IF sms_ok THEN 0 ELSE 1)
                /\ IF send_sms(sms_ok) # "none"
                   THEN Raise(send_sms(sms_ok)) /\ UNCHANGED endCalls
                   ELSE endCalls' = endCalls + 1 /\ Return
                /\ UNCHANGED transfers
           ELSE /\ said' = said \cup {"extension_trouble"}
                /\ transfers' = transfers + 1
                /\ Return
                /\ UNCHANGED <<smsSent, endCalls, undelivered>>
    /\ UNCHANGED <<today, calls, response, guest_info, cancel_info, reservation, heard,
                   emailsSent>>
    /\ UNCHANGED <<chatVars, webVars, threadVars, intentVars, extractVars, formVars>>
    /\ Taped

(***************************************************************************)
(* handle_cancellation                                                     *)
(***************************************************************************)
\* cancel_info['name'] = listen().title()
CancelName ==
    /\ pc = "CANCEL_NAME"
    /\ \E text \in NameInputs :
        /\ cancel_info' = DictSet(cancel_info, "name", Title(text))
        /\ heard' = DictSet(heard, "name", text)
        /\ last_input' = <<text>>
    /\ said' = said \cup {"ask_cancel_check_in"}
    /\ pc' = "CANCEL_CHECKIN"
    /\ UNCHANGED <<today, browser, page, calls, response, stack, guest_info, reservation,
                   endCalls, transfers, smsSent, emailsSent, backend, exc>>
    /\ UNCHANGED <<chatVars, webVars, threadVars, intentVars, extractVars, formVars, undelivered>>
    /\ Taped

\* cancel_info['check_in'] = parse_date(listen())
CancelCheckIn ==
    /\ pc = "CANCEL_CHECKIN"
    /\ \E text \in CheckOutInputs :
        /\ cancel_info' = DictSet(cancel_info, "check_in", parse_date(text, today))
        /\ heard' = DictSet(heard, "check_in", text)
        /\ last_input' = <<text>>
    /\ said' = said \cup {"ask_cancel_check_out"}
    /\ pc' = "CANCEL_CHECKOUT"
    /\ UNCHANGED <<today, browser, page, calls, response, stack, guest_info, reservation,
                   endCalls, transfers, smsSent, emailsSent, backend, exc>>
    /\ UNCHANGED <<chatVars, webVars, threadVars, intentVars, extractVars, formVars, undelivered>>
    /\ Taped

\* cancel_info['check_out'] = parse_date(listen())
CancelCheckOut ==
    /\ pc = "CANCEL_CHECKOUT"
    /\ \E text \in CheckOutInputs :
        /\ cancel_info' = DictSet(cancel_info, "check_out", parse_date(text, today))
        /\ heard' = DictSet(heard, "check_out", text)
        /\ last_input' = <<text>>
    /\ said' = said \cup {"ask_cancel_phone"}
    /\ pc' = "CANCEL_PHONE"
    /\ UNCHANGED <<today, browser, page, calls, response, stack, guest_info, reservation,
                   endCalls, transfers, smsSent, emailsSent, backend, exc>>
    /\ UNCHANGED <<chatVars, webVars, threadVars, intentVars, extractVars, formVars, undelivered>>
    /\ Taped

\* cancel_info['phone'] = extract_phone(listen())
CancelPhone ==
    /\ pc = "CANCEL_PHONE"
    /\ \E text \in PhoneInputs :
        /\ cancel_info' = DictSet(cancel_info, "phone", extract_phone(text))
        /\ heard' = DictSet(heard, "phone", text)
        /\ last_input' = <<text>>
    /\ said' = said \cup {"ask_reason"}
    /\ pc' = "CANCEL_REASON"
    /\ UNCHANGED <<today, browser, page, calls, response, stack, guest_info, reservation,
                   endCalls, transfers, smsSent, emailsSent, backend, exc>>
    /\ UNCHANGED <<chatVars, webVars, threadVars, intentVars, extractVars, formVars, undelivered>>
    /\ Taped

\* cancel_info['reason'] = listen(); the request is read back
CancelReason ==
    /\ pc = "CANCEL_REASON"
    /\ \E text \in ReasonInputs :
        /\ cancel_info' = DictSet(cancel_info, "reason", text)
        /\ heard' = DictSet(heard, "reason", text)
        /\ last_input' = <<text>>
    /\ said' = said \cup {"read_back_cancel"}
    /\ pc' = "CANCEL_CONFIRM"
    /\ UNCHANGED <<today, browser, page, calls, response, stack, guest_info, reservation,
                   endCalls, transfers, smsSent, emailsSent, backend, exc>>
    /\ UNCHANGED <<chatVars, webVars, threadVars, intentVars, extractVars, formVars, undelivered>>
    /\ Taped

\* confirm = listen(); "yes" notifies the owner and ends the call, anything
\* else calls handle_cancellation again
CancelConfirm ==
    /\ pc = "CANCEL_CONFIRM"
    /\ \E confirm \in ConfirmInputs :
        /\ last_input' = <<confirm>>
        /\ IF Contains(Lower(confirm), YES)
           THEN \E sms_ok, email_ok \in BOOLEAN :
                LET sms_exc == send_sms(sms_ok)
                    email_exc == IF sms_exc = "none" THEN send_email(email_ok) ELSE "none"
                IN  /\ smsSent' = smsSent + 1
                    /\ emailsSent' = IF sms_exc = "none" THEN emailsSent + 1 ELSE emailsSent
                    /\ undelivered' = undelivered + (IF sms_ok THEN 0 ELSE 1)
                                           + (IF sms_exc = "none" /\ ~email_ok THEN 1 ELSE 0)
                    /\ IF sms_exc # "none"
                       THEN Raise(sms_exc) /\ UNCHANGED <<said, endCalls>>
                       ELSE IF email_exc # "none"
                       THEN Raise(email_exc) /\ UNCHANGED <<said, endCalls>>
                       ELSE /\ said' = said \cup {"cancel_received"}
                            /\ endCalls' = endCalls + 1
                            /\ Return
                    /\ UNCHANGED <<cancel_info, heard>>
           ELSE /\ handle_cancellation(said \cup {"try_again"})
                /\ UNCHANGED <<smsSent, emailsSent, endCalls, undelivered>>
    /\ UNCHANGED <<today, browser, page, calls, response, guest_info, reservation,
                   transfers, backend>>
    /\ UNCHANGED <<chatVars, webVars, threadVars, intentVars, extractVars, formVars>>
    /\ Taped

(***************************************************************************)
(* handle_faq                                                              *)
(***************************************************************************)
\* (mutant) the goodbye branch returns without end_call
FaqAnythingElseWithoutHangup ==
    /\ pc = "FAQ_ANSWER"
    /\ \E reply \in FaqInputs :
        /\ last_input' = <<reply>>
        /\ IF Contains(Lower(reply), YES)
           THEN /\ handle_incoming_call(said)
                /\ UNCHANGED endCalls
           ELSE /\ said' = said \cup {"goodbye"}
                /\ endCalls' = endCalls
                /\ Return
    /\ UNCHANGED <<today, browser, page, calls, response, guest_info, cancel_info,
                   reservation, heard, transfers, smsSent, emailsSent, backend>>
    /\ UNCHANGED <<chatVars, webVars, threadVars, intentVars, extractVars, formVars, undelivered>>
    /\ Taped

\* response = listen(); "yes" calls handle_incoming_call again, anything
\* else says goodbye and ends the call
FaqAnythingElse ==
    /\ pc = "FAQ_ANSWER"
    /\ \E reply \in FaqInputs :
        /\ last_input' = <<reply>>
        /\ IF Contains(Lower(reply), YES)
           THEN /\ handle_incoming_call(said)
                /\ UNCHANGED endCalls
           ELSE /\ said' = said \cup {"goodbye"}
                /\ endCalls' = endCalls + 1
                /\ Return
    /\ UNCHANGED <<today, browser, page, calls, response, guest_info, cancel_info,
                   reservation, heard, transfers, smsSent, emailsSent, backend>>
    /\ UNCHANGED <<chatVars, webVars, threadVars, intentVars, extractVars, formVars, undelivered>>
    /\ Taped

Next ==
    \/ IncomingCall
    \/ HandleIncomingCall
    \/ BookingCheckIn
    \/ BookingCheckOut
    \/ BookingGuests
    \/ BookingName
    \/ BookingPhone
    \/ BookingEmail
    \/ BookingConfirm
    \/ ExtendLookup
    \/ ExtendNewDate
    \/ CancelName
    \/ CancelCheckIn
    \/ CancelCheckOut
    \/ CancelPhone
    \/ CancelReason
    \/ CancelConfirm
    \/ FaqAnythingElse

Spec == Init /\ [][Next]_vars

(***************************************************************************)
(* conversational_ai.py: goodbye detection                                 *)
(***************************************************************************)
goodbye_phrases ==
    { <<"b","y","e">>,
      <<"g","o","o","d","b","y","e">>,
      <<"t","h","a","n","k"," ","y","o","u">>,
      <<"t","h","a","n","k","s">>,
      <<"t","h","a","t","'","s"," ","a","l","l">>,
      <<"i","'","m"," ","g","o","o","d">>,
      <<"a","l","l"," ","s","e","t">>,
      <<"h","a","v","e"," ","a"," ","g","o","o","d">>,
      <<"t","a","l","k"," ","l","a","t","e","r">> }

ai_goodbye_phrases ==
    { <<"h","a","v","e"," ","a"," ","g","r","e","a","t">>,
      <<"y","o","u","'","r","e"," ","w","e","l","c","o","m","e">>,
      <<"e","n","j","o","y"," ","y","o","u","r">>,
      <<"t","a","l","k"," ","t","o"," ","y","o","u">> }

\* ConversationalAI._detect_goodbye
detect_goodbye(user_message, ai_response) ==
    LET user_goodbye == \E phrase \in goodbye_phrases : Contains(Lower(user_message), phrase)
        ai_goodbye == \E phrase \in ai_goodbye_phrases : Contains(Lower(ai_response), phrase)
    IN  user_goodbye \/ (user_goodbye /\ ai_goodbye)

(***************************************************************************)
(* Claims about the handler thread (Spec)                                  *)
(***************************************************************************)
Terminated == pc \in {"returned", "crashed"}

InDialog == pc \notin {"idle", "returned", "crashed"}

BookingSlotStates ==
    {"BOOKING_CHECKIN", "BOOKING_CHECKOUT", "BOOKING_GUESTS", "BOOKING_NAME",
     "BOOKING_PHONE", "BOOKING_EMAIL"}

CancelSlotStates ==
    {"CANCEL_NAME", "CANCEL_CHECKIN", "CANCEL_CHECKOUT", "CANCEL_PHONE", "CANCEL_REASON"}

\* the slot values the extractors give for the utterances of the running pass
Collected(h) ==
    [check_in  |-> parse_date(h["check_in"], today),
     check_out |-> parse_date(h["check_out"], today),
     guests    |-> extract_number(h["guests"]),
     name      |-> Title(h["name"]),
     phone     |-> extract_phone(h["phone"]),
     email     |-> Lower(h["email"])]

\* the reservation a pass asks for: each collected value under the keyword
\* of create_reservation that is meant for it
Submitted(h) ==
    [name       |-> Title(h["name"]),
     phone      |-> extract_phone(h["phone"]),
     email      |-> Lower(h["email"]),
     check_in   |-> parse_date(h["check_in"], today),
     check_out  |-> parse_date(h["check_out"], today),
     num_guests |-> extract_number(h["guests"])]

Invoked(op, result) ==
    \E i \in 1..Len(backend) : backend[i].op = op /\ backend[i].result = result

\* C1: when create_reservation or update_checkout reported success=false,
\* the call was transferred, and no confirmation was spoken, no notification
\* was sent and end_call was not invoked for it
C1_FailureTransfers ==
    (Invoked("create_reservation", "fail") \/ Invoked("update_checkout", "fail"))
        => /\ pc = "returned"
           /\ transfers >= 1
           /\ endCalls = 0
           /\ smsSent = 0
           /\ emailsSent = 0
           /\ said \cap {"booking_confirmed", "extension_confirmed"} = {}

C1_Witness ==
    /\ Invoked("update_checkout", "fail")
    /\ transfers = 1
    /\ "extension_trouble" \in said

\* C2 (as claimed): at the greeting and in the booking flow, a turn whose
\* input is empty either re-prompts the same state or, at the retry ceiling,
\* transfers the call; whatever the ceiling, it never advances the dialog
C2_EmptyInputRetriesOrTransfers ==
    [][(pc \in {"LISTENING", "BOOKING_CONFIRM"} \cup BookingSlotStates
           /\ last_input' = <<U_EMPTY>>)
          => \/ pc' = pc
             \/ (pc' = "returned" /\ transfers' = transfers + 1)]_vars

\* C3 (as claimed): a handler thread that has ended performed a terminal
\* action (end_call or transfer_to_agent); stated for the threads no backend
\* exception ended, so that the restarts of the dialog decide it
C3_EndsWithTerminalAction ==
    (Terminated /\ exc # "BackendError") => endCalls + transfers >= 1

\* C4 (as claimed): a booking for which the guest supplied the six slots and
\* which the backend accepted was created by exactly one create_reservation
\* call carrying the six collected values, and exactly one notification was
\* dispatched before the call ended
C4_OneCreateOneNotification ==
    (Invoked("create_reservation", "ok") /\ \A k \in BookingSlots : heard[k] # U_EMPTY)
        => /\ Len(backend) = 1
           /\ backend[1].args = Submitted(heard)
           /\ smsSent + emailsSent = 1
           /\ endCalls = 1

\* C4 (amended): a booking for which the guest supplied the six slots and
\* which the backend accepted was created by exactly one create_reservation
\* call carrying the six collected values, and exactly one SMS and exactly
\* one e-mail were dispatched before the call ended
C4_OneCreateSmsAndEmail ==
    (Invoked("create_reservation", "ok") /\ \A k \in BookingSlots : heard[k] # U_EMPTY)
        => /\ Len(backend) = 1
           /\ backend[1].args = Submitted(heard)
           /\ smsSent = 1
           /\ emailsSent = 1
           /\ endCalls = 1
           /\ pc = "returned"

C4_Witness ==
    /\ Invoked("create_reservation", "ok")
    /\ \A k \in BookingSlots : heard[k] # U_EMPTY
    /\ backend[1].args.phone # INVALID
    /\ endCalls = 1

\* C5: at BOOKING_CONFIRM guest_info has exactly the six booking keys and
\* each value is the one extracted from the utterance of the running pass
C5_ConfirmHasSixCurrentSlots ==
    pc = "BOOKING_CONFIRM"
        => /\ DOMAIN guest_info = BookingSlots
           /\ guest_info = Collected(heard)

\* a confirmation reached again after a rejected pass
C5_Witness ==
    /\ pc = "BOOKING_CONFIRM"
    /\ "try_again" \in said
    /\ Len(SelectSeq(stack, LAMBDA f : f = "handle_new_booking")) >= 2
    /\ guest_info["name"] = Title(U_JANE)

\* C6: when create_reservation reported failure the call was transferred and
\* guest_info still holds the six values that were submitted
C6_FailureKeepsFlowData ==
    Invoked("create_reservation", "fail")
        => /\ pc = "returned"
           /\ transfers = 1
           /\ DOMAIN guest_info = BookingSlots
           /\ guest_info = Collected(heard)
           /\ backend[Len(backend)].args = CreateArgs(guest_info)

C6_Witness ==
    /\ Invoked("create_reservation", "fail")
    /\ "booking_trouble" \in said
    /\ guest_info["email"] = Lower(U_MAIL)

\* C7 (as claimed): in the slot-collecting states of the booking and the
\* cancellation flow, a turn whose utterance carries goodbye phrasing hangs
\* up (the call is ended) and leaves the slot dictionaries untouched
C7_GoodbyeHangsUp ==
    [][(pc \in BookingSlotStates \cup CancelSlotStates
           /\ last_input' # <<>> /\ detect_goodbye(last_input'[1], <<>>))
          => /\ pc' = "returned"
             /\ endCalls' = endCalls + 1
             /\ guest_info' = guest_info
             /\ cancel_info' = cancel_info]_vars

\* C10 (as claimed): no handler thread is ended by an exception that came
\* out of a SkyTouch operation
C10_NoBackendException ==
    /\ exc # "BackendError"
    /\ \A i \in 1..Len(backend) : backend[i].result \in {"ok", "fail"}

(***************************************************************************)
(* conversational_ai.py: ConversationalAI                                  *)
(***************************************************************************)
\* messages a conversation may hold, the system prompt included
MaxHistory == 4

CallIds == {"CA1", "CA2"}

U_WIFI == <<"w","i","f","i"," ","p","a","s","s","w","o","r","d">>

R_ENJOY == <<" ","E","n","j","o","y"," ","y","o","u","r"," ","s","t","a","y","!"," ">>

R_SURE == <<"S","u","r","e">>

U_BOOK_WIFI == <<"b","o","o","k"," ","a"," ","r","o","o","m"," ","w","i","t","h"," ","w","i","f","i">>

ChatInputs == {U_BYE, U_WIFI, U_BOOK_WIFI}

\* what requests.post to the chat backend yields: a completion, or an
\* exception (connection error, timeout, HTTP error status, malformed body)
ChatReplies ==
    { [ok |-> TRUE, content |-> c] : c \in {R_ENJOY, R_SURE} }
    \cup { [ok |-> FALSE, content |-> <<>>] }

\* _get_system_prompt()
SYSTEM_PROMPT == <<"system prompt">>

APOLOGY == <<"I apologize, I'm having trouble right now.">>

\* ConversationalAI._detect_intent
chat_detect_intent(message) ==
    LET message_lower == Lower(message)
        any(words) == \E word \in words : Contains(message_lower, word)
    IN  IF any({<<"w","i","f","i">>, <<"p","a","s","s","w","o","r","d">>, <<"i","n","t","e","r","n","e","t">>})
        THEN "wifi_question"
        ELSE IF any({<<"b","o","o","k">>, <<"r","e","s","e","r","v","e">>, <<"r","e","s","e","r","v","a","t","i","o","n">>, <<"r","o","o","m"," ","a","v","a","i","l","a","b","l","e">>})
        THEN "booking"
        ELSE IF any({<<"c","h","e","c","k"," ","i","n">>, <<"c","h","e","c","k"," ","o","u","t">>, <<"c","h","e","c","k","o","u","t">>, <<"c","h","e","c","k","i","n">>})
        THEN "check_in_out"
        ELSE IF any({<<"p","o","o","l">>, <<"b","e","a","c","h">>, <<"p","a","r","k","i","n","g">>, <<"a","m","e","n","i","t","y">>, <<"a","m","e","n","i","t","i","e","s">>})
        THEN "amenities"
        ELSE IF any({<<"b","y","e">>, <<"g","o","o","d","b","y","e">>, <<"t","h","a","n","k">>, <<"t","h","a","n","k","s">>})
        THEN "goodbye"
        ELSE "general_question"

\* (mutant) each turn drops the oldest message of the history
ChatDroppingOldest(call_id) ==
    /\ call_id \in DOMAIN conversations => Len(conversations[call_id]) + 2 <= MaxHistory
    /\ \E user_message \in ChatInputs, reply \in ChatReplies :
        LET started == IF call_id \in DOMAIN conversations
                       THEN Tail(conversations[call_id])
                       ELSE <<[role |-> "system", content |-> SYSTEM_PROMPT]>>
            asked == Append(started, [role |-> "user", content |-> user_message])
            ai_response == Strip(reply.content)
        IN  /\ chat_args' = [call_id |-> call_id, user_message |-> user_message]
            /\ IF reply.ok
               THEN /\ conversations' =
                          DictSet(conversations, call_id,
                                  Append(asked, [role |-> "assistant", content |-> ai_response]))
                    /\ chat_result' = [response |-> ai_response,
                                       should_end_call |-> detect_goodbye(user_message, ai_response),
                                       intent |-> chat_detect_intent(user_message)]
               ELSE /\ conversations' = DictSet(conversations, call_id, asked)
                    /\ chat_result' = [response |-> APOLOGY,
                                       should_end_call |-> FALSE,
                                       intent |-> "error"]
    /\ UNCHANGED <<callVars, response, webVars, threadVars, extractVars, formVars, replayVars>>

\* ConversationalAI.chat
Chat(call_id) ==
    /\ call_id \in DOMAIN conversations => Len(conversations[call_id]) + 2 <= MaxHistory
    /\ \E user_message \in ChatInputs, reply \in ChatReplies :
        LET started == IF call_id \in DOMAIN conversations
                       THEN conversations[call_id]
                       ELSE <<[role |-> "system", content |-> SYSTEM_PROMPT]>>
            asked == Append(started, [role |-> "user", content |-> user_message])
            ai_response == Strip(reply.content)
        IN  /\ chat_args' = [call_id |-> call_id, user_message |-> user_message]
            /\ IF reply.ok
               THEN /\ conversations' =
                          DictSet(conversations, call_id,
                                  Append(asked, [role |-> "assistant", content |-> ai_response]))
                    /\ chat_result' = [response |-> ai_response,
                                       should_end_call |-> detect_goodbye(user_message, ai_response),
                                       intent |-> chat_detect_intent(user_message)]
               ELSE /\ conversations' = DictSet(conversations, call_id, asked)
                    /\ chat_result' = [response |-> APOLOGY,
                                       should_end_call |-> FALSE,
                                       intent |-> "error"]
    /\ UNCHANGED <<callVars, response, webVars, threadVars, extractVars, formVars, replayVars>>

\* del d[k] on a Python dict
DictDel(d, k) == [x \in (DOMAIN d) \ {k} |-> d[x]]

\* ConversationalAI.clear_conversation
ClearConversation(call_id) ==
    /\ conversations' = IF call_id \in DOMAIN conversations
                        THEN DictDel(conversations, call_id)
                        ELSE conversations
    /\ UNCHANGED <<chat_args, chat_result, callVars, response, webVars, threadVars, extractVars, formVars, replayVars>>

NextChat ==
    \/ \E call_id \in CallIds : Chat(call_id)
    \/ \E call_id \in CallIds : ClearConversation(call_id)

SpecChat == Init /\ [][NextChat]_vars

(***************************************************************************)
(* Claims about ConversationalAI (SpecChat)                                *)
(***************************************************************************)
\* C8 (as claimed): when the latest chat turn carried goodbye phrasing, it
\* returned should_end_call true and no transcript is kept for its call_id,
\* whether or not the chat backend answered
C8_GoodbyeEndsAndClears ==
    (chat_args.call_id # "none" /\ detect_goodbye(chat_args.user_message, <<>>))
        => /\ chat_result.should_end_call
           /\ chat_args.call_id \notin DOMAIN conversations

(***************************************************************************)
(* main_fix.py: the Twilio webhooks                                        *)
(***************************************************************************)
U_EXTEND == <<"e","x","t","e","n","d"," ","m","y"," ","s","t","a","y">>

U_CANCEL == <<"C","a","n","c","e","l">>

U_CANCEL_BOOKING == <<"c","a","n","c","e","l"," ","m","y"," ","b","o","o","k","i","n","g">>

WebSpeech == {U_EMPTY, U_BOOK, U_EXTEND, U_CANCEL, U_CANCEL_BOOKING, U_WIFI, U_TOMORROW}

WebDigits == {"1", "2", "3", "4"}

\* request.form of a callback: recognized speech, pressed digits, or neither
WebForms ==
    { [SpeechResult |-> t] : t \in WebSpeech }
    \cup { [Digits |-> d] : d \in WebDigits }
    \cup { [CallSid |-> "CA1"] }

\* request.form.get(key, default)
FormGet(form, key, default) == IF key \in DOMAIN form THEN form[key] ELSE default

\* /incoming_call: the greeting is said and a gather, with the menu said
\* inside it, names /handle_guest_input
WebIncomingCall ==
    /\ web_at \in {"none", "dialed", "ended"}
    /\ \E form \in WebForms : request' = form
    /\ response' = [status |-> 200, says |-> 2, gather |-> "/handle_guest_input",
                    dial |-> FALSE]
    /\ web_at' = "/handle_guest_input"
    /\ UNCHANGED <<callVars, chatVars, threadVars, extractVars, formVars, replayVars>>

\* the branch handle_guest_input takes on the lower-cased SpeechResult
guest_choice(form) ==
    LET user_input == Lower(FormGet(form, "SpeechResult", <<>>))
    IN  IF \/ Contains(user_input, <<"b","o","o","k","i","n","g">>)
           \/ Contains(user_input, <<"b","o","o","k">>)
           \/ Contains(user_input, <<"r","e","s","e","r","v","e">>)
        THEN "/booking_checkin"
        ELSE IF \/ Contains(user_input, <<"e","x","t","e","n","d">>)
                \/ Contains(user_input, <<"s","t","a","y">>)
        THEN "/extend_stay"
        ELSE IF Contains(user_input, <<"c","a","n","c","e","l">>)
        THEN "/cancel_booking"
        ELSE "dial"

\* /handle_guest_input: a say and a gather for the chosen flow, or a say and
\* a dial of the motel
WebHandleGuestInput ==
    /\ web_at = "/handle_guest_input"
    /\ \E form \in WebForms :
        LET choice == guest_choice(form)
        IN  /\ request' = form
            /\ IF choice = "dial"
               THEN /\ response' = [status |-> 200, says |-> 1, gather |-> "none",
                                    dial |-> TRUE]
                    /\ web_at' = "dialed"
               ELSE /\ response' = [status |-> 200, says |-> 1, gather |-> choice,
                                    dial |-> FALSE]
                    /\ web_at' = choice
    /\ UNCHANGED <<callVars, chatVars, threadVars, extractVars, formVars, replayVars>>

\* /booking_checkin: the date is echoed, a gather names /booking_checkout
WebBookingCheckin ==
    /\ web_at = "/booking_checkin"
    /\ \E form \in WebForms :
        /\ request' = form
        /\ response' = [status |-> 200, says |-> 1, gather |-> "/booking_checkout", dial |-> FALSE]
    /\ web_at' = "/booking_checkout"
    /\ UNCHANGED <<callVars, chatVars, threadVars, extractVars, formVars, replayVars>>

\* /booking_checkout: a say, a gather names /booking_guests
WebBookingCheckout ==
    /\ web_at = "/booking_checkout"
    /\ \E form \in WebForms :
        /\ request' = form
        /\ response' = [status |-> 200, says |-> 1, gather |-> "/booking_guests", dial |-> FALSE]
    /\ web_at' = "/booking_guests"
    /\ UNCHANGED <<callVars, chatVars, threadVars, extractVars, formVars, replayVars>>

\* /booking_guests: a say and a dial of the motel
WebBookingGuests ==
    /\ web_at = "/booking_guests"
    /\ \E form \in WebForms :
        /\ request' = form
        /\ response' = [status |-> 200, says |-> 1, gather |-> "none", dial |-> TRUE]
    /\ web_at' = "dialed"
    /\ UNCHANGED <<callVars, chatVars, threadVars, extractVars, formVars, replayVars>>

\* /extend_stay: a say and a dial of the motel
WebExtendStay ==
    /\ web_at = "/extend_stay"
    /\ \E form \in WebForms :
        /\ request' = form
        /\ response' = [status |-> 200, says |-> 1, gather |-> "none", dial |-> TRUE]
    /\ web_at' = "dialed"
    /\ UNCHANGED <<callVars, chatVars, threadVars, extractVars, formVars, replayVars>>

\* /cancel_booking: a say and a dial of the motel
WebCancelBooking ==
    /\ web_at = "/cancel_booking"
    /\ \E form \in WebForms :
        /\ request' = form
        /\ response' = [status |-> 200, says |-> 1, gather |-> "none", dial |-> TRUE]
    /\ web_at' = "dialed"
    /\ UNCHANGED <<callVars, chatVars, threadVars, extractVars, formVars, replayVars>>

\* a gather times out with nothing heard: no verb follows it in any of the
\* documents, so the provider ends the call without a callback
WebNoInput ==
    /\ web_at \in {"/handle_guest_input", "/booking_checkin", "/booking_checkout",
                   "/booking_guests", "/extend_stay", "/cancel_booking"}
    /\ web_at' = "ended"
    /\ UNCHANGED <<request, response, callVars, chatVars, threadVars, extractVars, formVars, replayVars>>

NextWeb ==
    \/ WebIncomingCall
    \/ WebHandleGuestInput
    \/ WebBookingCheckin
    \/ WebBookingCheckout
    \/ WebBookingGuests
    \/ WebExtendStay
    \/ WebCancelBooking
    \/ WebNoInput

SpecWeb == Init /\ [][NextWeb]_vars

(***************************************************************************)
(* Claims about the webhooks                                               *)
(***************************************************************************)
\* a control response: at least one spoken line and either a gather with a
\* callback target or a dial
WellFormed(r) ==
    /\ r.status = 200
    /\ r.says >= 1
    /\ (r.gather # "none" \/ r.dial)

\* C9 (as claimed): every response a webhook has returned is a well-formed
\* control response
C9_ResponseWellFormed == response # NoResponse => WellFormed(response)

(***************************************************************************)
(* main.py: the handler threads of /incoming-call, run side by side        *)
(* (SpecThreads)                                                           *)
(***************************************************************************)
\* handler threads the process has started
MaxThreads == 3

\* a thread whose target has neither returned nor raised
Live(t) == t.at \notin {"returned", "crashed"}

\* /incoming-call with a JSON body: a thread running handle_incoming_call is
\* started for the call_id of the body, whatever threads are running, and
\* the JSON status is returned
ThreadStart(call_id) ==
    /\ Len(threads) < MaxThreads
    /\ threads' = Append(threads, [call_id |-> call_id, at |-> "LISTENING"])
    /\ response' = [status |-> 200, says |-> 0, gather |-> "none", dial |-> FALSE]
    /\ UNCHANGED <<active_calls, callVars, chatVars, webVars, extractVars, formVars, replayVars>>

\* handle_incoming_call of thread i from its listen() on: nothing heard or
\* an intent outside the four flows transfers and returns, a flow intent
\* enters the flow
ThreadListen(i) ==
    /\ threads[i].at = "LISTENING"
    /\ \E to \in {"returned", "BOOKING", "EXTEND", "CANCEL", "FAQ"} :
           threads' = [threads EXCEPT ![i].at = to]
    /\ UNCHANGED <<active_calls, callVars, chatVars, webVars, response, extractVars, formVars, replayVars>>

\* CallManager.end_call
end_call(call_id) == active_calls' = active_calls \ {call_id}

\* the last turn of a flow of thread i: the booking, extension and
\* cancellation flows end the call or transfer it and return; an exception
\* (of the backend, or the RecursionError of the nested re-entries) ends the
\* thread; "yes" at the anything-else prompt of the FAQ flow goes back to
\* the greeting
ThreadFlow(i) ==
    /\ threads[i].at \in {"BOOKING", "EXTEND", "CANCEL", "FAQ"}
    /\ \/ /\ threads' = [threads EXCEPT ![i].at = "returned"]
          /\ \/ end_call(threads[i].call_id)
             \/ /\ threads[i].at # "FAQ"
                /\ UNCHANGED active_calls
       \/ /\ threads' = [threads EXCEPT ![i].at = "crashed"]
          /\ UNCHANGED active_calls
       \/ /\ threads[i].at = "FAQ"
          /\ threads' = [threads EXCEPT ![i].at = "LISTENING"]
          /\ UNCHANGED active_calls
    /\ UNCHANGED <<callVars, chatVars, webVars, response, extractVars, formVars, replayVars>>

NextThreads ==
    \/ \E call_id \in CallIds : ThreadStart(call_id)
    \/ \E i \in DOMAIN threads : ThreadListen(i)
    \/ \E i \in DOMAIN threads : ThreadFlow(i)

SpecThreads == Init /\ [][NextThreads]_vars

\* the threads handling call_id that are still running
Handlers(call_id) == { i \in DOMAIN threads : threads[i].call_id = call_id /\ Live(threads[i]) }

\* C11 (as claimed): at any time at most one handler is running for a
\* call_id; a further /incoming-call for a call_id in progress starts none
C11_OneHandlerPerCall == \A call_id \in CallIds : Cardinality(Handlers(call_id)) <= 1

(***************************************************************************)
(* Claims about the conversation memory (SpecChat)                         *)
(***************************************************************************)
\* C12 (as claimed): once a call has reached its end (chat has answered
\* with should_end_call) the conversation memory holds no transcript of
\* that call_id
C12_EndedCallHoldsNoTranscript ==
    chat_result.should_end_call => chat_args.call_id \notin DOMAIN conversations

(***************************************************************************)
(* Claims about the nesting of the flow handlers (Spec)                    *)
(***************************************************************************)
\* C13 (as claimed): the number of nested handler invocations of a call does
\* not depend on the guest's answers: no answer at a confirmation or at the
\* anything-else prompt adds an invocation to those already active
C13_AnswerKeepsDepth ==
    [][(pc \in {"BOOKING_CONFIRM", "CANCEL_CONFIRM", "FAQ_ANSWER"})
           => Len(stack') <= Len(stack)]_vars

(***************************************************************************)
(* Claims about the intent classifier (Spec)                               *)
(***************************************************************************)
\* the closed set of intents of the classifier's contract
Intents ==
    {I_NEW_BOOKING, I_EXTEND_STAY, I_CANCEL, I_FAQ, I_OTHER,
     <<"G","O","O","D","B","Y","E">>}

\* C14 (as claimed): whatever the guest said and whatever text the AI
\* backend returned, the intent detect_intent returned is one of the closed
\* set
C14_IntentInClosedSet == \A i \in DOMAIN intent : intent[i] \in Intents

\* C15: when the chat completion of detect_intent raised (error or timeout),
\* detect_intent returned OTHER and no exception reached
\* handle_incoming_call, which transferred the call and returned
C15_BackendFailureYieldsOther ==
    \A i \in DOMAIN ai_reply :
        ~ai_reply[i].ok => /\ intent = <<I_OTHER>>
                           /\ exc = "none"
                           /\ pc = "returned"
                           /\ transfers = 1

\* a call whose intent detection met a failing AI backend
C15_Witness ==
    /\ ai_reply = <<[ok |-> FALSE, text |-> <<>>]>>
    /\ last_input = <<U_BOOK>>
    /\ intent = <<I_OTHER>>
    /\ pc = "returned"

(***************************************************************************)
(* main.py: a session and its replay (SpecReplay)                          *)
(***************************************************************************)
InitReplay == InitProgram /\ recording = TRUE

SpecReplay == InitReplay /\ [][Next]_vars

parse_date_fix(date_str, now) ==
    LET ds == Lower(date_str)
        numbers == FindNumbers(ds)
    IN  IF Contains(ds, <<"t","o","d","a","y">>) THEN Strftime(now)
        ELSE IF Contains(ds, <<"t","o","m","o","r","r","o","w">>) THEN Strftime(AddDays(now, 1))
        ELSE IF Len(numbers) >= 2
             THEN ZFill(numbers[1], 2) \o <<"/">> \o ZFill(numbers[2], 2)
                      \o <<"/">> \o ToStr(now.y)
             ELSE Strftime(now)

\* words and numbers an utterance is made of
Phrases ==
    { U_EMPTY, U_TODAY, U_TOMORROW, U_NEXT, U_DEC25, U_SHORT, U_PHONE,
      <<"2","5">>, <<"o","n"," ","t","h","e"," ","5">>, <<"2","0","2","6">>, <<"1"," ","(","2","5","2",")"," ","4","4","1","-","5","2","4","2">>, <<"F","r","i","d","a","y">> }

\* the utterances given to the extractors: two phrases, one after the other
ExtractInputs == { a \o <<" ">> \o b : a \in Phrases, b \in Phrases }

\* the extractors applied to one utterance on the clock date
Extract ==
    /\ \E text \in ExtractInputs :
           extraction' = <<[text      |-> text,
                            date     |-> parse_date(text, today),
                            date_fix |-> parse_date_fix(text, today),
                            phone    |-> extract_phone(text),
                            number   |-> extract_number(text)]>>
    /\ UNCHANGED <<callVars, response, chatVars, webVars, threadVars, replayVars, formVars>>

NextExtract == Extract

SpecExtract == Init /\ [][NextExtract]_vars

(***************************************************************************)
(* Claims about the slot extractors (SpecExtract)                          *)
(***************************************************************************)
\* the date the reference assigns to an utterance on the clock date now
ReferenceDate(text, now) ==
    LET low == Lower(text)
        tokens == FindNumbers(text)
        two(n) == IF Len(n) = 1 THEN <<"0">> \o n ELSE n
    IN  IF Contains(low, <<"t","o","d","a","y">>) THEN Strftime(now)
        ELSE IF Contains(low, <<"t","o","m","o","r","r","o","w">>) THEN Strftime(AddDays(now, 1))
        ELSE IF Contains(low, <<"n","e","x","t">>) THEN Strftime(AddDays(now, 7))
        ELSE IF Len(tokens) >= 2
        THEN two(tokens[1]) \o <<"/">> \o two(tokens[2]) \o <<"/">> \o ToStr(now.y)
        ELSE Strftime(now)

\* C17 (as claimed): the parse_date of main.py and the parse_date of
\* main_fix.py both return the reference date of the utterance
C17_ExtractorsAgreeWithReference ==
    \A i \in DOMAIN extraction :
        /\ extraction[i].date = ReferenceDate(extraction[i].text, today)
        /\ extraction[i].date_fix = ReferenceDate(extraction[i].text, today)

\* the decimal digit characters
DigitChars == {"0","1","2","3","4","5","6","7","8","9"}

\* MM/DD/YYYY with a month of 01..12 and a day of 01..31
IsCanonicalDate(d) ==
    /\ Len(d) = 10
    /\ d[3] = "/" /\ d[6] = "/"
    /\ \A k \in {1, 2, 4, 5, 7, 8, 9, 10} : d[k] \in DigitChars
    /\ ToInt(SubSeq(d, 1, 2)) \in 1..12
    /\ ToInt(SubSeq(d, 4, 5)) \in 1..31

\* C18 (as claimed): whatever the utterance, the parse_date of main.py
\* returns a canonical MM/DD/YYYY date
C18_DateIsCanonical ==
    \A i \in DOMAIN extraction : IsCanonicalDate(extraction[i].date)

\* the digit characters of a text, in order
DigitsOf(text) == SelectSeq(text, LAMBDA c : c \in DigitChars)

\* C19: with ten digits or more in the utterance extract_phone returns
\* "(XXX) XXX-XXXX" made of the last ten of them, in order; with fewer it
\* returns the invalid marker
C19_PhoneIsLastTenOrInvalid ==
    \A i \in DOMAIN extraction :
        LET all == DigitsOf(extraction[i].text)
            phone == extraction[i].phone
        IN  IF Len(all) >= 10
            THEN /\ Len(phone) = 14
                 /\ phone[1] = "(" /\ phone[5] = ")" /\ phone[6] = " " /\ phone[10] = "-"
                 /\ \A k \in 1..10 :
                        phone[IF k <= 3 THEN k + 1 ELSE IF k <= 6 THEN k + 3 ELSE k + 4]
                            = all[Len(all) - 10 + k]
            ELSE phone = INVALID

\* an utterance of eleven digits, country code first
C19_Witness ==
    /\ extraction # <<>>
    /\ extraction[1].text = <<"1"," ","(","2","5","2",")"," ","4","4","1","-","5","2","4","2">> \o <<" ">>
    /\ extraction[1].phone = <<"(","2","5","2",")"," ","4","4","1","-","5","2","4","2">>

(***************************************************************************)
(* Claims about the keypad menu of main_fix.py (SpecWeb)                   *)
(***************************************************************************)
\* the flow the menu of /incoming_call announces for a key
MenuRoute(digit) ==
    IF digit = "1" THEN "/booking_checkin"
    ELSE IF digit = "2" THEN "/extend_stay"
    ELSE "/cancel_booking"

\* C20 (as claimed): a callback to /handle_guest_input that carries the
\* pressed key 1, 2 or 3 and no speech is answered with the gather of the
\* booking, extend-stay or cancellation flow respectively
C20_DigitRoutesToFlow ==
    [][(/\ web_at = "/handle_guest_input"
        /\ web_at' \notin {"/handle_guest_input", "ended"}
        /\ "Digits" \in DOMAIN request'
        /\ "SpeechResult" \notin DOMAIN request'
        /\ request'.Digits \in {"1", "2", "3"})
           => web_at' = MenuRoute(request'.Digits)]_vars

(***************************************************************************)
(* Claims about the turns of the flows (Spec)                              *)
(***************************************************************************)
\* C21 (as claimed): in a slot-collecting state of the booking or the
\* cancellation flow, a turn on which nothing was heard stores no value and
\* stays in the same state
C21_EmptyInputStoresNothing ==
    [][(pc \in BookingSlotStates \cup CancelSlotStates /\ last_input' = <<U_EMPTY>>)
           => /\ pc' = pc
              /\ guest_info' = guest_info
              /\ cancel_info' = cancel_info]_vars

\* the booking slots in the order handle_new_booking asks for them
SlotOrder == <<"check_in", "check_out", "guests", "name", "phone", "email">>

\* the slots already asked for at a state of the booking flow
SlotsBefore(state) ==
    IF state = "BOOKING_CHECKIN" THEN 0
    ELSE IF state = "BOOKING_CHECKOUT" THEN 1
    ELSE IF state = "BOOKING_GUESTS" THEN 2
    ELSE IF state = "BOOKING_NAME" THEN 3
    ELSE IF state = "BOOKING_PHONE" THEN 4
    ELSE IF state = "BOOKING_EMAIL" THEN 5
    ELSE 6

Routable == {I_NEW_BOOKING, I_EXTEND_STAY, I_CANCEL, I_FAQ}

\* C23 (as claimed): the first utterance of a call that the classifier
\* cannot route is answered with a clarification prompt and the dialog
\* listens again; the call is not transferred on it
C23_UnroutableIsReprompted ==
    [][(/\ pc = "LISTENING"
        /\ intent = <<>>
        /\ intent' # <<>>
        /\ intent'[1] \notin Routable)
           => /\ pc' = "LISTENING"
              /\ transfers' = transfers]_vars


\* an answer that says no
NO == <<"n","o">>

Negative(answer) == Contains(Lower(answer), NO)

\* C24 (as claimed): a negative answer at a confirmation restarts the flow
\* at its first slot with empty flow data, and neither the backend nor the
\* notifier is called for the rejected values
C24_NegativeAnswerRestarts ==
    [][(/\ pc \in {"BOOKING_CONFIRM", "CANCEL_CONFIRM"}
        /\ last_input' # <<>>
        /\ Negative(last_input'[1]))
           => /\ pc' = (IF pc = "BOOKING_CONFIRM" THEN "BOOKING_CHECKIN" ELSE "CANCEL_NAME")
              /\ guest_info' = <<>>
              /\ cancel_info' = <<>>
              /\ backend' = backend
              /\ smsSent' = smsSent
              /\ emailsSent' = emailsSent]_vars


\* C25 (as claimed): when the cancellation has been acknowledged to the
\* guest, an operation of the reservation backend has been invoked for it
C25_CancellationReachesBackend ==
    "cancel_received" \in said => backend # <<>>

\* C27 (as claimed): when answer_faq failed, the call has been transferred
\* and the dialog did not go on to ask for anything else
C27_FaqFailureTransfers ==
    "faq_fallback" \in said
        => /\ transfers >= 1
           /\ "anything_else" \notin said
           /\ endCalls = 0

\* C28 (as claimed): a spoken reply to "anything else?" that is neither a
\* goodbye nor a no takes the dialog back to LISTENING, the call still open
C28_NonGoodbyeReturnsToListening ==
    [][(/\ pc = "FAQ_ANSWER"
        /\ last_input' # <<>>
        /\ last_input'[1] # U_EMPTY
        /\ ~Negative(last_input'[1])
        /\ ~detect_goodbye(last_input'[1], <<>>))
           => /\ pc' = "LISTENING"
              /\ endCalls' = endCalls]_vars


\* the sentences that tell the guest the transaction went through
Confirmations == {"booking_confirmed", "extension_confirmed", "cancel_received"}

\* the sentences that tell the guest something went wrong
Apologies == {"booking_trouble", "extension_trouble"}

\* C29: when an SMS or an e-mail to the owner could not be delivered, the
\* call has its normal outcome: the confirmation was spoken, the call was
\* ended by end_call, it was not transferred and no apology was spoken
C29_NotificationFailureIsSilent ==
    undelivered > 0
        => /\ pc = "returned"
           /\ exc = "none"
           /\ endCalls = 1
           /\ transfers = 0
           /\ said \cap Confirmations # {}
           /\ said \cap Apologies = {}

\* a booking confirmed to the guest while both notifications were lost
C29_Witness ==
    /\ undelivered = 2
    /\ "booking_confirmed" \in said
    /\ endCalls = 1


\* C30: a call gets at most one terminal action, end_call or a transfer,
\* and has got exactly one when its handler has returned
C30_ExactlyOneTerminalAction ==
    /\ endCalls + transfers <= 1
    /\ pc = "returned" => endCalls + transfers = 1
    /\ endCalls + transfers = 1 => pc = "returned"

\* a handler that was entered again after a rejected confirmation and then
\* returned with the transfer as its one terminal action
C30_Witness ==
    /\ pc = "returned"
    /\ "try_again" \in said
    /\ transfers = 1
    /\ endCalls = 0


(***************************************************************************)
(* skytouch_automation.py: create_reservation run by the handler threads   *)
(* of two calls on the one SkyTouchAgent of the process, one step per page *)
(* operation                                                               *)
(***************************************************************************)
\* the value guest_info of a call holds for a field (guest_info is a local
\* of the handler of the call)
OwnValue(call_id, field) == <<call_id, field>>

\* the page operations of the try block in their order
PageSteps ==
    <<"entered", "reservations", "new_reservation", "name", "phone", "email",
      "check_in", "check_out", "guests", "submitted">>

StepIndex(step) == CHOOSE i \in DOMAIN PageSteps : PageSteps[i] = step

\* an operation on self.page: on page None it raises AttributeError; on a
\* page it acts, or raises for a missing element, a timeout or the use of
\* the page by another thread; "except Exception" catches all of these
PageOutcomes == IF page = "None" THEN {"raise"} ELSE {"ok", "raise"}

\* what create_reservation does not touch
formRest ==
    <<today, calls, response, pc, stack, guest_info, cancel_info, reservation,
      heard, last_input, said, endCalls, transfers, smsSent, emailsSent,
      backend, exc, undelivered, intentVars, chatVars, webVars, threadVars,
      extractVars, replayVars>>

\* "if not self.browser": the thread reads the attribute
CreateEnter(call_id) ==
    /\ call_id \notin DOMAIN filling
    /\ filling' = DictSet(filling, call_id,
                          IF browser = "None" THEN "login" ELSE "entered")
    /\ UNCHANGED <<browser, page, page_form, submitted>>
    /\ UNCHANGED formRest

\* self.login(): a new browser, context and page replace those of the agent
CreateLogin(call_id) ==
    /\ call_id \in DOMAIN filling
    /\ filling[call_id] = "login"
    /\ \E l \in login :
        /\ browser' = (IF l.browser = "None" THEN browser ELSE l.browser)
        /\ page' = (IF l.browser = "None" THEN page ELSE l.page)
        /\ page_form' = (IF l.browser = "None" THEN page_form ELSE BlankForm)
        /\ filling' = DictSet(filling, call_id,
                              IF l.raised THEN "raised" ELSE "entered")
    /\ UNCHANGED submitted
    /\ UNCHANGED formRest

\* page.click('text="Reservations"'), page.click('text="New Reservation"'):
\* the second one opens an empty reservation form
PageClick(call_id) ==
    /\ call_id \in DOMAIN filling
    /\ filling[call_id] \in {"entered", "reservations"}
    /\ \E outcome \in PageOutcomes :
        IF outcome = "raise"
        THEN /\ filling' = DictSet(filling, call_id, "failed")
             /\ UNCHANGED page_form
        ELSE /\ filling' = DictSet(filling, call_id,
                                   PageSteps[StepIndex(filling[call_id]) + 1])
             /\ page_form' = (IF filling[call_id] = "reservations" THEN BlankForm ELSE page_form)
    /\ UNCHANGED <<browser, page, submitted>>
    /\ UNCHANGED formRest

\* page.fill(placeholder, value) for the next of the six fields
PageFill(call_id) ==
    /\ call_id \in DOMAIN filling
    /\ filling[call_id] \in {"new_reservation", "name", "phone", "email",
                             "check_in", "check_out"}
    /\ \E outcome \in PageOutcomes :
        IF outcome = "raise"
        THEN /\ filling' = DictSet(filling, call_id, "failed")
             /\ UNCHANGED page_form
        ELSE LET field == PageSteps[StepIndex(filling[call_id]) + 1]
             IN  /\ filling' = DictSet(filling, call_id, field)
                 /\ page_form' = [page_form EXCEPT ![field] = OwnValue(call_id, field)]
    /\ UNCHANGED <<browser, page, submitted>>
    /\ UNCHANGED formRest

\* page.click('button:has-text("Create Reservation")'): the backend gets
\* the form as it stands
PageSubmit(call_id) ==
    /\ call_id \in DOMAIN filling
    /\ filling[call_id] = "guests"
    /\ \E outcome \in PageOutcomes :
        IF outcome = "raise"
        THEN /\ filling' = DictSet(filling, call_id, "failed")
             /\ UNCHANGED <<page_form, submitted>>
        ELSE /\ filling' = DictSet(filling, call_id, "submitted")
             /\ submitted' = Append(submitted, [by |-> call_id, fields |-> page_form])
             /\ page_form' = BlankForm
    /\ UNCHANGED <<browser, page>>
    /\ UNCHANGED formRest

\* wait_for_selector and text_content of the confirmation, then the return
\* of {"success": True, ...}, or of {"success": False, ...} from the except
CreateReturn(call_id) ==
    /\ call_id \in DOMAIN filling
    /\ filling[call_id] = "submitted"
    /\ \E outcome \in PageOutcomes :
        filling' = DictSet(filling, call_id,
                           IF outcome = "raise" THEN "failed" ELSE "succeeded")
    /\ UNCHANGED <<browser, page, page_form, submitted>>
    /\ UNCHANGED formRest

NextForm ==
    \E call_id \in CallIds :
        \/ CreateEnter(call_id)
        \/ CreateLogin(call_id)
        \/ PageClick(call_id)
        \/ PageFill(call_id)
        \/ PageSubmit(call_id)
        \/ CreateReturn(call_id)

SpecForm == Init /\ [][NextForm]_vars

\* C26 (as claimed): every reservation the backend got holds in each field
\* nothing but the value of the call that submitted it
C26_ReservationHoldsOwnValuesOnly ==
    \A i \in DOMAIN submitted :
        \A field \in FormFields :
            submitted[i].fields[field] \in
                {Blank, OwnValue(submitted[i].by, field)}


(***************************************************************************)
(* Claims about the values that reach the backend                          *)
(***************************************************************************)
\* the day a text MM/DD/YYYY names, as a number that orders days
DateKey(d) ==
    ToInt(SubSeq(d, 7, 10)) * 10000 + ToInt(SubSeq(d, 1, 2)) * 100
        + ToInt(SubSeq(d, 4, 5))

\* C31 (as claimed): no reservation is submitted whose check-out date is
\* an earlier day than its check-in date
C31_CheckOutNotBeforeCheckIn ==
    \A i \in DOMAIN backend :
        (/\ backend[i].op = "create_reservation"
         /\ IsCanonicalDate(backend[i].args.check_in)
         /\ IsCanonicalDate(backend[i].args.check_out))
            => DateKey(backend[i].args.check_out) >= DateKey(backend[i].args.check_in)

\* C32 (as claimed): no reservation is submitted whose phone is the
\* marker "Invalid"
C32_InvalidPhoneNotSubmitted ==
    \A i \in DOMAIN backend :
        backend[i].op = "create_reservation" => backend[i].args.phone # INVALID


(***************************************************************************)
(* Claims about the extend-stay flow                                       *)
(***************************************************************************)
\* the positions of the update_checkout invocations of the call
Updates == { i \in DOMAIN backend : backend[i].op = "update_checkout" }

\* C33: update_checkout is invoked at most once per call, right after a
\* search_reservation that returned a reservation and with the id of that
\* reservation; when the search returned none the call was transferred
\* and no update was made
C33_UpdateOnlyForFoundReservation ==
    /\ Cardinality(Updates) <= 1
    /\ \A i \in Updates :
        /\ i > 1
        /\ backend[i - 1].op = "search_reservation"
        /\ backend[i - 1].result = "ok"
        /\ reservation # NoReservation
        /\ backend[i].args.reservation_id = reservation.id
    /\ Invoked("search_reservation", "fail")
           => /\ Updates = {}
              /\ transfers = 1
              /\ endCalls = 0
              /\ pc = "returned"

\* an extension made for the reservation the search returned
C33_Witness ==
    /\ Invoked("search_reservation", "ok")
    /\ Invoked("update_checkout", "ok")
    /\ reservation = [id |-> "R2"]
    /\ "extension_confirmed" \in said


(***************************************************************************)
(* Claims about the history of ConversationalAI (SpecChat)                 *)
(***************************************************************************)
\* s is an initial part of t
IsPrefix(s, t) == Len(s) <= Len(t) /\ SubSeq(t, 1, Len(s)) = s

\* C34: every history starts with the system prompt, and a step keeps the
\* history a call_id had as an initial part of the history it has after
\* the step, unless the step removes the entry
C34_HistoryIsAppendOnly ==
    [][\A call_id \in DOMAIN conversations' :
          /\ conversations'[call_id][1] = [role |-> "system", content |-> SYSTEM_PROMPT]
          /\ (call_id \in DOMAIN conversations)
                 => IsPrefix(conversations[call_id], conversations'[call_id])]_vars

\* a history that two chat() calls appended to
C34_Witness ==
    \E call_id \in DOMAIN conversations :
        /\ Len(conversations[call_id]) = MaxHistory
        /\ conversations[call_id][1].role = "system"

\* C35 (as claimed): in every history the messages after the system prompt
\* are user, assistant, user, assistant, ... in this order
C35_RolesAlternate ==
    \A call_id \in DOMAIN conversations :
        \A k \in 2..Len(conversations[call_id]) :
            conversations[call_id][k].role =
                (IF k % 2 = 0 THEN "user" ELSE "assistant")

\* C36 (as claimed): an utterance with a booking keyword is classified as
\* booking, whatever other keywords it holds
C36_BookingKeywordWins ==
    (/\ chat_result.intent \notin {"none", "error"}
     /\ Contains(Lower(chat_args.user_message), <<"b","o","o","k">>))
        => chat_result.intent = "booking"

=============================================================================
